---- MODULE Spec2Model ----
(***************************************************************************)
(* A model of the in-memory B+ tree of bplustree.go.                       *)
(*                                                                         *)
(* The Go heap is a sequence of node records; a pointer is an index into   *)
(* it and 0 is nil.  Go slices are sequences; indices passed between the   *)
(* operators are Go's 0-based indices, so element i of slice s is s[i+1].  *)
(* A run-time panic (index out of range, nil dereference) is an outcome of *)
(* an operator: its result record carries panic = TRUE.                    *)
(***************************************************************************)
EXTENDS Integers, Sequences, FiniteSets, TLC

\* ------------------------------------------------------------------ bounds
\* Spec: any interleaving of Insert and Remove with keys 1..MaxKey and
\* values 1..MaxVal; Insert is called only while the heap holds fewer than
\* MaxNodes nodes (one Insert may still add a node per level and a root).
MaxKey == 5
MaxVal == 2
MaxNodes == 4
Orders == {3}

Keys == 1..MaxKey
Vals == 1..MaxVal

\* SpecScenario: the keys 1..n (n <= ScenarioKeys) inserted in ascending
\* order with value = key, then any sequence of Remove calls.
ScenarioKeys == 10
ScenarioOrders == {3, 4}

Nil == 0

VARIABLES
    order,      \* BPlusTree.order
    heap,       \* the nodes allocated so far: Seq of node records
    root,       \* BPlusTree.root (Nil for a tree never inserted into)
    ref,        \* reference map driven by the same calls: key -> value
    last,       \* the last call and what it returned
    before,     \* the pairs of the ascending walk as they were before the last call
    panicked    \* TRUE once a call has aborted with a run-time panic

vars == <<order, heap, root, ref, last, before, panicked>>

\* LessFunc: the strict order on keys.
less(a, b) == a < b

\* ------------------------------------------------------- items primitives
\* items.insertAt, for 0 <= index <= len(s)
insertAt(s, index, item) ==
    SubSeq(s, 1, index) \o <<item>> \o SubSeq(s, index + 1, Len(s))

\* items.removeAt, for 0 <= index < len(s): the remaining sequence
removeAt(s, index) ==
    SubSeq(s, 1, index) \o SubSeq(s, index + 2, Len(s))

\* items.pop: the remaining sequence
pop(s) == SubSeq(s, 1, Len(s) - 1)

\* items.truncate
truncate(s, index) == SubSeq(s, 1, index)

\* s[from:] of Go
sliceFrom(s, from) == SubSeq(s, from + 1, Len(s))

\* sort.Search(len(s), func(i) { return less(item, s[i]) }): the binary
\* search of the standard library, on whatever sequence it is given.
RECURSIVE Search(_, _, _, _)
Search(s, item, i, j) ==
    IF i < j
    THEN LET h == (i + j) \div 2
         IN  IF ~less(item, s[h + 1])
             THEN Search(s, item, h + 1, j)
             ELSE Search(s, item, i, h)
    ELSE i

\* find that reports a match at the index sort.Search returned, one past the
\* equal element.
findPastMatch(s, item) ==
    LET at(i) == IF i > 0 /\ ~less(s[i], item)
                 THEN [index |-> i, found |-> TRUE]
                 ELSE [index |-> i, found |-> FALSE]
    IN  at(Search(s, item, 0, Len(s)))

\* items.find
find(s, item) ==
    LET at(i) == IF i > 0 /\ ~less(s[i], item)
                 THEN [index |-> i - 1, found |-> TRUE]
                 ELSE [index |-> i, found |-> FALSE]
    IN  at(Search(s, item, 0, Len(s)))

\* ------------------------------------------------------------------ node
\* &node{}: the zero node
ZeroNode ==
    [keys |-> <<>>, children |-> <<>>, parent |-> Nil, order |-> 0,
     next |-> Nil, prev |-> Nil, isLeaf |-> FALSE, values |-> <<>>]

\* node.maxKeys
maxKeys(n) == IF ~n.isLeaf THEN n.order - 1 ELSE n.order

\* minKeys with the degree rounded down: floor(order / 2).
minKeysRoundedDown(n) ==
    IF ~n.isLeaf THEN n.order \div 2 - 1 ELSE n.order \div 2

\* node.minKeys: degree = ceil(order / 2)
minKeys(n) ==
    IF ~n.isLeaf THEN (n.order + 1) \div 2 - 1 ELSE (n.order + 1) \div 2

\* split that moves keys[i:] to the new node whether n is a leaf or not: the
\* key at index i of an internal node stays in the right half.
splitKeepingKey(h, n, i) ==
    LET newNode == Len(h) + 1
        new(nd) ==
            [nd EXCEPT
             !.keys     = sliceFrom(@, i),
             !.children = IF Len(@) > 0 THEN sliceFrom(@, i + 1) ELSE <<>>,
             !.values   = IF Len(@) > 0 THEN sliceFrom(@, i) ELSE <<>>,
             !.prev     = n]
        old(nd) ==
            [nd EXCEPT
             !.keys     = truncate(@, i),
             !.children = IF Len(@) > 0 THEN truncate(@, i + 1) ELSE <<>>,
             !.values   = IF Len(@) > 0 THEN truncate(@, i) ELSE <<>>,
             !.next     = newNode]
        relinked(nx) ==
            IF nx # Nil
            THEN [h EXCEPT ![n] = old(@), ![nx].prev = newNode]
            ELSE [h EXCEPT ![n] = old(@)]
    IN  [h       |-> Append(relinked(h[n].next), new(h[n])),
         key     |-> h[n].keys[i + 1],
         newNode |-> newNode]

\* split that leaves the prev of n's former next node as it was.
splitWithoutBacklink(h, n, i) ==
    LET newNode == Len(h) + 1
        new(nd) ==
            [nd EXCEPT
             !.keys     = sliceFrom(@, IF nd.isLeaf THEN i ELSE i + 1),
             !.children = IF Len(@) > 0 THEN sliceFrom(@, i + 1) ELSE <<>>,
             !.values   = IF Len(@) > 0 THEN sliceFrom(@, i) ELSE <<>>,
             !.prev     = n]
        old(nd) ==
            [nd EXCEPT
             !.keys     = truncate(@, i),
             !.children = IF Len(@) > 0 THEN truncate(@, i + 1) ELSE <<>>,
             !.values   = IF Len(@) > 0 THEN truncate(@, i) ELSE <<>>,
             !.next     = newNode]
    IN  [h       |-> Append([h EXCEPT ![n] = old(@)], new(h[n])),
         key     |-> h[n].keys[i + 1],
         newNode |-> newNode]

\* node.split: the heap after splitting node n at index i, the key that was
\* at that index and the new node (allocated at the end of the heap).
split(h, n, i) ==
    LET newNode == Len(h) + 1
        new(nd, ik) ==
            [keys     |-> sliceFrom(nd.keys, ik),
             children |-> IF Len(nd.children) > 0
                          THEN sliceFrom(nd.children, i + 1) ELSE <<>>,
             parent   |-> nd.parent,
             order    |-> nd.order,
             next     |-> nd.next,
             prev     |-> n,
             isLeaf   |-> nd.isLeaf,
             values   |-> IF Len(nd.values) > 0
                          THEN sliceFrom(nd.values, i) ELSE <<>>]
        old(nd) ==
            [nd EXCEPT
             !.keys     = truncate(@, i),
             !.children = IF Len(@) > 0 THEN truncate(@, i + 1) ELSE <<>>,
             !.values   = IF Len(@) > 0 THEN truncate(@, i) ELSE <<>>,
             !.next     = newNode]
        relinked(nx) ==
            IF nx # Nil
            THEN [h EXCEPT ![n] = old(@), ![nx].prev = newNode]
            ELSE [h EXCEPT ![n] = old(@)]
    IN  [h       |-> Append(relinked(h[n].next),
                            new(h[n], IF h[n].isLeaf THEN i ELSE i + 1)),
         key     |-> h[n].keys[i + 1],
         newNode |-> newNode]

\* mayGrowUp that never passes a split up: below a parent, the two halves are
\* put under a new node of one key that takes the split node's slot.
mayGrowUpInPlace(h, n) ==
    LET over(hs, key, newNode, top, parent) ==
            [Append(hs, [ZeroNode EXCEPT !.order    = hs[n].order,
                                         !.keys     = <<key>>,
                                         !.children = <<n, newNode>>,
                                         !.parent   = parent])
             EXCEPT ![n].parent = top, ![newNode].parent = top]
        slotted(hs, top, parent) ==
            IF parent = Nil
            THEN [h |-> hs, root |-> top, flag |-> TRUE]
            ELSE [h |-> [hs EXCEPT ![parent].children =
                             [j \in 1..Len(@) |-> IF @[j] = n THEN top ELSE @[j]]],
                  root |-> Nil, flag |-> FALSE]
        afterSplit(sp) ==
            slotted(over(sp.h, sp.key, sp.newNode, Len(sp.h) + 1, sp.h[n].parent),
                    Len(sp.h) + 1, sp.h[n].parent)
    IN  IF Len(h[n].keys) <= maxKeys(h[n])
        THEN [h |-> h, root |-> Nil, flag |-> FALSE]
        ELSE afterSplit(split(h, n, minKeys(h[n])))

\* mayGrowUp whose new root does not become the parent of the new node.
RECURSIVE mayGrowUpHalfParented(_, _)
mayGrowUpHalfParented(h, n) ==
    LET newRoot(hs, key, newNode, rootId) ==
            [h |-> [Append(hs, [ZeroNode EXCEPT
                                !.order    = hs[n].order,
                                !.keys     = <<key>>,
                                !.children = <<n, newNode>>])
                    EXCEPT ![n].parent = rootId],
             root |-> rootId, flag |-> TRUE]
        intoParent(hs, parent, key, newNode, index) ==
            mayGrowUpHalfParented(
                [hs EXCEPT ![parent].keys     = insertAt(@, index, key),
                           ![parent].children = insertAt(@, index + 1, newNode)],
                parent)
        promote(hs, parent, key, newNode) ==
            IF parent = Nil
            THEN newRoot(hs, key, newNode, Len(hs) + 1)
            ELSE intoParent(hs, parent, key, newNode,
                            find(hs[parent].keys, key).index)
        afterSplit(sp) == promote(sp.h, sp.h[n].parent, sp.key, sp.newNode)
    IN  IF Len(h[n].keys) <= maxKeys(h[n])
        THEN [h |-> h, root |-> Nil, flag |-> FALSE]
        ELSE afterSplit(split(h, n, minKeys(h[n])))

\* mayGrowUp without its split: a node over maxKeys is left as it is.
mayGrowUpNever(h, n) == [h |-> h, root |-> Nil, flag |-> FALSE]

\* node.mayGrowUp: the heap, the new root (Nil when none was created) and
\* the flag the Go code returns.
RECURSIVE mayGrowUp(_, _)
mayGrowUp(h, n) ==
    LET newRoot(hs, key, newNode, rootId) ==
            [h |-> [Append(hs, [ZeroNode EXCEPT
                                !.order    = hs[n].order,
                                !.keys     = <<key>>,
                                !.children = <<n, newNode>>])
                    EXCEPT ![n].parent = rootId, ![newNode].parent = rootId],
             root |-> rootId, flag |-> TRUE]
        intoParent(hs, parent, key, newNode, index) ==
            mayGrowUp([hs EXCEPT
                       ![parent].keys     = insertAt(@, index, key),
                       ![parent].children = insertAt(@, index + 1, newNode)],
                      parent)
        promote(hs, parent, key, newNode) ==
            IF parent = Nil
            THEN newRoot(hs, key, newNode, Len(hs) + 1)
            ELSE intoParent(hs, parent, key, newNode,
                            find(hs[parent].keys, key).index)
        afterSplit(sp) == promote(sp.h, sp.h[n].parent, sp.key, sp.newNode)
    IN  IF Len(h[n].keys) <= maxKeys(h[n])
        THEN [h |-> h, root |-> Nil, flag |-> FALSE]
        ELSE afterSplit(split(h, n, minKeys(h[n])))

\* node.insertIntoLeaf
insertIntoLeaf(h, n, key, value) ==
    LET at(f) ==
            IF f.found
            THEN [h |-> [h EXCEPT ![n].values[f.index + 1] = value],
                  root |-> Nil, flag |-> FALSE]
            ELSE mayGrowUp([h EXCEPT ![n].keys   = insertAt(@, f.index, key),
                                     ![n].values = insertAt(@, f.index, value)],
                           n)
    IN  at(find(h[n].keys, key))

\* The descent of node.insert and node.remove: the leaf reached from n for
\* key, following children[find(key).index] through the internal nodes.
RECURSIVE descend(_, _, _)
descend(h, n, key) ==
    IF h[n].isLeaf
    THEN n
    ELSE descend(h, h[n].children[find(h[n].keys, key).index + 1], key)

\* node.insert
insert(h, n, key, value) == insertIntoLeaf(h, descend(h, n, key), key, value)

\* BPlusTree.Insert: the heap, the tree's root and the returned bool.
TreeInsert(h, rt, ord, key, value) ==
    LET result(r) == [h |-> r.h,
                      root |-> IF r.root # Nil THEN r.root ELSE rt,
                      ret |-> r.flag]
    IN  IF rt = Nil
        THEN [h |-> Append(h, [ZeroNode EXCEPT !.order = ord, !.isLeaf = TRUE,
                                               !.keys = <<key>>,
                                               !.values = <<value>>]),
              root |-> Len(h) + 1, ret |-> FALSE]
        ELSE result(insert(h, rt, key, value))

\* mayStealFromNeighborLeaf that never finds a neighbour able to give.
neverStealFromNeighborLeaf(h, n, key) == [h |-> h, ok |-> FALSE, panic |-> FALSE]

\* node.mayStealFromNeighborLeaf: the heap, whether a pair was stolen, and
\* whether the call panicked (parent.keys.removeAt(index) with index equal
\* to len(parent.keys)).
mayStealFromNeighborLeaf(h, n, key) ==
    LET \* lines 243-245 and 256-258: the separator find gives is replaced
        setSeparator(hs, parent, index, sep) ==
            IF index >= Len(hs[parent].keys)
            THEN [h |-> hs, ok |-> FALSE, panic |-> TRUE]
            ELSE [h |-> [hs EXCEPT ![parent].keys =
                                       insertAt(removeAt(@, index), index, sep)],
                  ok |-> TRUE, panic |-> FALSE]
        fromPrev(prev, parent, stolenKey, stolenValue) ==
            setSeparator([h EXCEPT ![prev].keys   = pop(@),
                                   ![prev].values = pop(@),
                                   ![n].keys      = insertAt(@, 0, stolenKey),
                                   ![n].values    = insertAt(@, 0, stolenValue)],
                         parent, find(h[parent].keys, key).index, stolenKey)
        fromNext(next, parent, stolenKey, stolenValue) ==
            IF Len(h[next].keys) = 1
            THEN [h |-> h, ok |-> FALSE, panic |-> TRUE]
            ELSE setSeparator([h EXCEPT ![next].keys   = removeAt(@, 0),
                                        ![next].values = removeAt(@, 0),
                                        ![n].keys      = Append(@, stolenKey),
                                        ![n].values    = Append(@, stolenValue)],
                              parent, find(h[parent].keys, key).index,
                              h[next].keys[2])
        steal(prev, next, parent) ==
            IF prev # Nil /\ Len(h[prev].keys) > minKeys(h[prev])
            THEN fromPrev(prev, parent, h[prev].keys[Len(h[prev].keys)],
                          h[prev].values[Len(h[prev].values)])
            ELSE IF next # Nil /\ Len(h[next].keys) > minKeys(h[next])
            THEN fromNext(next, parent, h[next].keys[1], h[next].values[1])
            ELSE [h |-> h, ok |-> FALSE, panic |-> FALSE]
    IN  IF ~h[n].isLeaf
        THEN [h |-> h, ok |-> FALSE, panic |-> TRUE]
        ELSE steal(h[n].prev, h[n].next, h[n].parent)

\* node.mayMergeWithNeighbor: the heap, the node returned (stopAt), whether a
\* merge took place, and whether the call panicked (len(second.keys) with
\* second nil, parent.keys with parent nil, removeAt out of range).
RECURSIVE mayMergeWithNeighbor(_, _, _)
mayMergeWithNeighbor(h, n, key) ==
    LET result(hs, stopAt, merged, panic) ==
            [h |-> hs, stopAt |-> stopAt, merged |-> merged, panic |-> panic]
        \* lines 273-279: second is appended onto first and unlinked
        appended(first, second, nx) ==
            IF nx = Nil
            THEN [h EXCEPT ![first].keys     = @ \o h[second].keys,
                           ![first].children = @ \o h[second].children,
                           ![first].values   = @ \o h[second].values,
                           ![first].next     = nx]
            ELSE [h EXCEPT ![first].keys     = @ \o h[second].keys,
                           ![first].children = @ \o h[second].children,
                           ![first].values   = @ \o h[second].values,
                           ![first].next     = nx,
                           ![nx].prev        = first]
        \* lines 286-294: the parent loses keys[i] and children[i + 1]
        dropped(hs, first, parent, i) ==
            IF i < 0 \/ i + 1 >= Len(hs[parent].children)
            THEN result(hs, Nil, FALSE, TRUE)
            ELSE IF Len(hs[parent].keys) = 1
            THEN result([hs EXCEPT ![parent].keys     = removeAt(@, i),
                                   ![parent].children = removeAt(@, i + 1),
                                   ![first].parent    = Nil],
                        first, TRUE, FALSE)
            ELSE [mayMergeWithNeighbor(
                      [hs EXCEPT ![parent].keys     = removeAt(@, i),
                                 ![parent].children = removeAt(@, i + 1)],
                      parent, key)
                  EXCEPT !.merged = TRUE]
        \* lines 282-285: the index find gives, stepped back from the end
        indexIn(keys, i) == IF i = Len(keys) THEN i - 1 ELSE i
        \* lines 281-282: parent := n.parent
        adjust(hs, first, parent) ==
            IF parent = Nil
            THEN result(hs, Nil, FALSE, TRUE)
            ELSE dropped(hs, first, parent,
                         indexIn(hs[parent].keys,
                                 find(hs[parent].keys, key).index))
        merge(first, second) ==
            IF second = Nil
            THEN result(h, Nil, FALSE, TRUE)
            ELSE IF Len(h[first].keys) + Len(h[second].keys) > maxKeys(h[first])
            THEN result(h, n, FALSE, FALSE)
            ELSE adjust(appended(first, second, h[second].next), first,
                        h[n].parent)
    IN  IF h[n].prev = Nil
        THEN merge(n, h[n].next)
        ELSE merge(h[n].prev, n)

\* node.removeFromLeaf, once the key is found at index: the pair is removed
\* and the leaf, if it is not the root and fell below minKeys, steals or merges.
removeFound(h, n, key, index) ==
    LET result(hs, stopAt, panic) ==
            [h |-> hs, stopAt |-> stopAt, out |-> h[n].values[index + 1],
             found |-> TRUE, panic |-> panic]
        merged(mg) == result(mg.h, mg.stopAt, mg.panic)
        stolen(h1, st) ==
            IF st.panic \/ st.ok
            THEN result(st.h, Nil, st.panic)
            ELSE merged(mayMergeWithNeighbor(h1, n, key))
        removed(h1) ==
            IF h1[n].parent = Nil \/ Len(h1[n].keys) >= minKeys(h1[n])
            THEN result(h1, Nil, FALSE)
            ELSE stolen(h1, mayStealFromNeighborLeaf(h1, n, key))
    IN  removed([h EXCEPT ![n].keys   = removeAt(@, index),
                          ![n].values = removeAt(@, index)])

\* removeFromLeaf without its early return: the pair at the index find
\* gives is removed whether or not the key was found there.
removeFromLeafUnchecked(h, n, key) ==
    LET at(f) ==
            IF f.index >= Len(h[n].keys)
            THEN [h |-> h, stopAt |-> Nil, out |-> 0, found |-> FALSE,
                  panic |-> FALSE]
            ELSE removeFound(h, n, key, f.index)
    IN  at(find(h[n].keys, key))

\* node.removeFromLeaf
removeFromLeaf(h, n, key) ==
    LET at(f) ==
            IF ~f.found
            THEN [h |-> h, stopAt |-> Nil, out |-> 0, found |-> FALSE,
                  panic |-> FALSE]
            ELSE removeFound(h, n, key, f.index)
    IN  at(find(h[n].keys, key))

\* node.remove
remove(h, n, key) == removeFromLeaf(h, descend(h, n, key), key)

\* BPlusTree.Remove: the heap, the tree's root, the returned value and bool.
TreeRemove(h, rt, key) ==
    LET result(r) ==
            [h |-> r.h,
             root |-> IF ~r.panic /\ r.stopAt # Nil /\ r.h[r.stopAt].parent = Nil
                      THEN r.stopAt ELSE rt,
             out |-> r.out, found |-> r.found, panic |-> r.panic]
    IN  IF rt = Nil
        THEN [h |-> h, root |-> rt, out |-> 0, found |-> FALSE, panic |-> FALSE]
        ELSE result(remove(h, rt, key))

\* ------------------------------------------------------- pointer identity
\* Go pointers carry no observable address and a node no pointer leads to is
\* garbage: after each call the heap keeps the nodes that some chain of
\* pointers from the root reaches, numbered in the order a breadth-first
\* walk over children, next, prev and parent first meets them.
Range(s) == {s[i] : i \in 1..Len(s)}

RECURSIVE addNew(_, _)
addNew(seq, ptrs) ==
    IF ptrs = <<>>
    THEN seq
    ELSE LET with(p) == IF p = Nil \/ p \in Range(seq) THEN seq ELSE Append(seq, p)
         IN  addNew(with(Head(ptrs)), Tail(ptrs))

RECURSIVE reach(_, _, _)
reach(h, seq, idx) ==
    IF idx > Len(seq)
    THEN seq
    ELSE LET ptrs(nd) == nd.children \o <<nd.next, nd.prev, nd.parent>>
         IN  reach(h, addNew(seq, ptrs(h[seq[idx]])), idx + 1)

normalize(h, rt) ==
    LET pos(seq, id) == IF id = Nil THEN Nil
                        ELSE CHOOSE i \in 1..Len(seq) : seq[i] = id
        ren(seq, nd) ==
            [nd EXCEPT
             !.children = [j \in 1..Len(@) |-> pos(seq, @[j])],
             !.parent = pos(seq, @),
             !.next = pos(seq, @),
             !.prev = pos(seq, @)]
        renumbered(seq) ==
            [h |-> [i \in 1..Len(seq) |-> ren(seq, h[seq[i]])], root |-> 1]
    IN  IF rt = Nil
        THEN [h |-> <<>>, root |-> Nil]
        ELSE renumbered(reach(h, <<rt>>, 1))

\* -------------------------------------------------------------- observers
\* The leftmost leaf: the leftmost child repeatedly from node n.
RECURSIVE leftmostLeaf(_, _)
leftmostLeaf(h, n) ==
    IF h[n].isLeaf THEN n ELSE leftmostLeaf(h, h[n].children[1])

\* The rightmost leaf: the last child repeatedly from node n.
RECURSIVE rightmostLeaf(_, _)
rightmostLeaf(h, n) ==
    IF h[n].isLeaf THEN n ELSE rightmostLeaf(h, h[n].children[Len(h[n].children)])

\* The nodes met from n following next (at most fuel of them).
RECURSIVE nextChain(_, _, _)
nextChain(h, n, fuel) ==
    IF n = Nil \/ fuel = 0 THEN <<>> ELSE <<n>> \o nextChain(h, h[n].next, fuel - 1)

\* The nodes met from n following prev (at most fuel of them).
RECURSIVE prevChain(_, _, _)
prevChain(h, n, fuel) ==
    IF n = Nil \/ fuel = 0 THEN <<>> ELSE <<n>> \o prevChain(h, h[n].prev, fuel - 1)

\* The leaves of the ascending walk of tree (h, rt), in the order met.  A
\* chain that runs into a cycle is cut after Len(h) + 1 leaves.
walkLeaves(h, rt) ==
    IF rt = Nil THEN <<>> ELSE nextChain(h, leftmostLeaf(h, rt), Len(h) + 1)

\* The leaves of the descending walk.
backLeaves(h, rt) ==
    IF rt = Nil THEN <<>> ELSE prevChain(h, rightmostLeaf(h, rt), Len(h) + 1)

RECURSIVE pairsOf(_, _)
pairsOf(h, leaves) ==
    IF leaves = <<>>
    THEN <<>>
    ELSE LET pairs(nd) == [i \in 1..Len(nd.keys) |-> <<nd.keys[i], nd.values[i]>>]
         IN  pairs(h[Head(leaves)]) \o pairsOf(h, Tail(leaves))

\* The key/value pairs the ascending walk yields.
walkPairs(h, rt) == pairsOf(h, walkLeaves(h, rt))

\* The keys the ascending walk yields.
walkKeys(h, rt) ==
    LET firsts(w) == [i \in 1..Len(w) |-> w[i][1]] IN firsts(walkPairs(h, rt))

\* The nodes reachable from n through child references.
RECURSIVE subtree(_, _)
subtree(h, n) ==
    {n} \cup UNION {subtree(h, h[n].children[j]) : j \in 1..Len(h[n].children)}

treeNodes(h, rt) == IF rt = Nil THEN {} ELSE subtree(h, rt)

\* The reference map: a function from the keys present to their values.
refPut(m, k, v) == [x \in DOMAIN m \cup {k} |-> IF x = k THEN v ELSE m[x]]
refDel(m, k) == [x \in DOMAIN m \ {k} |-> m[x]]

\* The pairs of the reference map, in key order.
RECURSIVE refPairs(_)
refPairs(m) ==
    IF DOMAIN m = {}
    THEN <<>>
    ELSE LET from(k) == <<(<<k, m[k]>>)>> \o refPairs(refDel(m, k))
         IN  from(CHOOSE x \in DOMAIN m : \A y \in DOMAIN m : x <= y)

\* ---------------------------------------------------------------- actions
NoCall == [op |-> "New", key |-> 0, val |-> 0, ret |-> FALSE, out |-> 0]

\* New(order, less)
New(orders) ==
    /\ order \in orders
    /\ heap = <<>>
    /\ root = Nil
    /\ ref = <<>>
    /\ last = NoCall
    /\ before = <<>>
    /\ panicked = FALSE

\* t.Insert(key, value)
Insert(key, value) ==
    /\ ~panicked
    /\ LET stored(z) == heap' = z.h /\ root' = z.root
           returned(r) ==
               /\ stored(normalize(r.h, r.root))
               /\ last' = [op |-> "Insert", key |-> key, val |-> value,
                           ret |-> r.ret, out |-> 0]
       IN  returned(TreeInsert(heap, root, order, key, value))
    /\ ref' = refPut(ref, key, value)
    /\ before' = walkPairs(heap, root)
    /\ UNCHANGED <<order, panicked>>

\* t.Remove(key)
Remove(key) ==
    /\ ~panicked
    /\ LET stored(z) == heap' = z.h /\ root' = z.root
           returned(r) ==
               /\ stored(normalize(r.h, r.root))
               /\ panicked' = r.panic
               /\ last' = [op |-> "Remove", key |-> key, val |-> 0,
                           ret |-> r.found, out |-> r.out]
       IN  returned(TreeRemove(heap, root, key))
    /\ ref' = refDel(ref, key)
    /\ before' = walkPairs(heap, root)
    /\ UNCHANGED order

Init == New(Orders)

Next ==
    \/ \E k \in Keys, v \in Vals : Len(heap) < MaxNodes /\ Insert(k, v)
    \/ \E k \in Keys : Remove(k)

Spec == Init /\ [][Next]_vars

\* The scenario of the interactive example: ascending inserts, then removes.
InitScenario == New(ScenarioOrders)

NextScenario ==
    \/ \E k \in 1..ScenarioKeys :
          last.op # "Remove" /\ k = last.key + 1 /\ Insert(k, k)
    \/ \E k \in 1..ScenarioKeys : Remove(k)

SpecScenario == InitScenario /\ [][NextScenario]_vars

\* New accepts any order: the same calls on trees of the orders 1, 2 and 3.
AnyOrders == {1, 2, 3}

InitAnyOrder == New(AnyOrders)

SpecAnyOrder == InitAnyOrder /\ [][Next]_vars

\* A caller that inserts the keys of InsertOrder in that order with value =
\* key, so that leaves other than the last one are filled and split, then
\* removes any keys.
InsertOrder == <<1, 2, 4, 5, 6, 8, 3, 9, 10, 7, 0>>

NextSteal ==
    \/ \E i \in 1..Len(InsertOrder) :
          /\ IF i = 1
             THEN last.op = "New"
             ELSE last.op = "Insert" /\ last.key = InsertOrder[i - 1]
          /\ Insert(InsertOrder[i], InsertOrder[i])
    \/ \E k \in Range(InsertOrder) : Remove(k)

SpecSteal == InitScenario /\ [][NextSteal]_vars

\* The key slices of TestSortSearch, generalised: every strictly increasing
\* sequence of keys, and every key searched for, with one key below and one
\* above the keys stored.
SortedInputs ==
    {s \in UNION {[1..n -> Keys] : n \in 0..MaxKey} :
        \A i \in 1..Len(s) : \A j \in 1..Len(s) : i < j => less(s[i], s[j])}

SearchKeys == 0..(MaxKey + 1)

\* input := items[int](c.a): the slice is held as the keys of one node that
\* is in no tree.
InitSortSearch ==
    /\ order = 0
    /\ heap \in {<<[ZeroNode EXCEPT !.keys = a]>> : a \in SortedInputs}
    /\ root = Nil
    /\ ref = <<>>
    /\ last = NoCall
    /\ before = <<>>
    /\ panicked = FALSE

\* got, found := input.find(c.search, less)
Find(search) ==
    /\ LET returned(r) ==
               last' = [op |-> "find", key |-> search, val |-> 0,
                        ret |-> r.found, out |-> r.index]
       IN  returned(find(heap[1].keys, search))
    /\ UNCHANGED <<order, heap, root, ref, before, panicked>>

\* keys.insertAt(index, key) with the index find returned for an absent key,
\* as node.insertIntoLeaf does.
InsertAtFound ==
    /\ last.op = "find"
    /\ ~last.ret
    /\ heap' = [heap EXCEPT ![1].keys = insertAt(@, last.out, last.key)]
    /\ last' = [last EXCEPT !.op = "insertAt"]
    /\ UNCHANGED <<order, root, ref, before, panicked>>

NextSortSearch ==
    \/ \E search \in SearchKeys : Find(search)
    \/ InsertAtFound

SpecSortSearch == InitSortSearch /\ [][NextSortSearch]_vars

\* ----------------------------------------------------------------- claims
keysOf(pairs) == {pairs[i][1] : i \in 1..Len(pairs)}
pairSet(pairs) == {pairs[i] : i \in 1..Len(pairs)}
reverse(s) == [i \in 1..Len(s) |-> s[Len(s) + 1 - i]]
leavesUnder(h, rt) == {n \in treeNodes(h, rt) : h[n].isLeaf}
\* The keys stored in the leaves reachable from the root through children.
leafKeys(h, rt) == UNION {Range(h[n].keys) : n \in leavesUnder(h, rt)}

\* C1: after any sequence of Insert and Remove calls that returned, the
\* ascending walk yields exactly the pairs of the reference map driven by the
\* same calls, in key order.
C1_WalkMatchesReference ==
    ~panicked => walkPairs(heap, root) = refPairs(ref)

\* C2: after any sequence of Insert and Remove calls that returned, the keys
\* read across the leaf chain are strictly increasing.
C2_LeafChainStrictlyIncreasing ==
    ~panicked =>
        LET w == walkKeys(heap, root)
        IN  \A i \in 1..(Len(w) - 1) : w[i] < w[i + 1]

\* C3: a Remove(key) that returns reports found = TRUE, with the value most
\* recently inserted, whenever the key was inserted and not removed since,
\* and found = FALSE only when it was not.
C3_RemoveReturnsStoredValue ==
    [][(last'.op = "Remove" /\ ~panicked') =>
          /\ last'.ret <=> last'.key \in DOMAIN ref
          /\ last'.ret => last'.out = ref[last'.key]]_vars

\* C4: Insert(key, value) returns TRUE exactly when the key was present
\* before the call.
C4_InsertReportsExisted ==
    [][last'.op = "Insert" => (last'.ret <=> last'.key \in DOMAIN ref)]_vars

\* C5: Insert(key, value) of a key the ascending walk already holds sets
\* that key's value and changes nothing else: same root, same nodes with the
\* same keys, children, parent and sibling links, same number of pairs.
C5_OverwriteChangesNothingElse ==
    [][(last'.op = "Insert" /\ last'.key \in keysOf(walkPairs(heap, root))) =>
          /\ root' = root
          /\ Len(heap') = Len(heap)
          /\ \A n \in 1..Len(heap) :
                [heap'[n] EXCEPT !.values = heap[n].values] = heap[n]
          /\ LET w == walkPairs(heap, root)
                 x == walkPairs(heap', root')
             IN  /\ Len(x) = Len(w)
                 /\ \A i \in 1..Len(w) :
                       x[i] = IF w[i][1] = last'.key
                              THEN <<last'.key, last'.val>> ELSE w[i]]_vars

\* C6: Remove(key) of a key stored in no leaf reachable from the root (also
\* on a tree never inserted into and on a tree emptied by removals) returns
\* found = FALSE without aborting and leaves the root and every node as they were.
C6_RemoveAbsentIsNoOp ==
    [][(last'.op = "Remove" /\ last'.key \notin leafKeys(heap, root)) =>
          /\ ~panicked'
          /\ ~last'.ret
          /\ last'.out = 0
          /\ heap' = heap
          /\ root' = root]_vars

\* C6 witness: a Remove of an absent key has just returned not-found on a
\* tree with an internal root that still holds other pairs.
C6_Witness ==
    /\ last.op = "Remove"
    /\ ~last.ret
    /\ ~panicked
    /\ root # Nil
    /\ ~heap[root].isLeaf
    /\ last.key \notin leafKeys(heap, root)
    /\ walkPairs(heap, root) = before
    /\ before # <<>>

\* C7: Insert(k, v) of a key the walk did not hold, followed immediately by
\* a Remove(k) that returns, gives (v, TRUE) and leaves the walk with the
\* set of pairs it had before the Insert.
C7_InsertRemoveRoundTrip ==
    [][(/\ last.op = "Insert"
        /\ last.key \notin keysOf(before)
        /\ last'.op = "Remove"
        /\ last'.key = last.key
        /\ ~panicked') =>
          /\ last'.ret
          /\ last'.out = last.val
          /\ pairSet(walkPairs(heap', root')) = pairSet(before)]_vars

\* C8: after every Insert or Remove that returned, every node reachable from
\* the root holds at most maxKeys keys, and every one other than the root
\* holds at least minKeys keys (d - 1 for an internal node, d for a leaf).
C8_KeyCountBounds ==
    ~panicked =>
        \A n \in treeNodes(heap, root) :
            /\ Len(heap[n].keys) <= maxKeys(heap[n])
            /\ n # root => Len(heap[n].keys) >= minKeys(heap[n])

\* C9: after every Insert or Remove that returned, every reachable internal
\* node has len(keys) + 1 children and every reachable leaf has none.
C9_ChildCount ==
    ~panicked =>
        \A n \in treeNodes(heap, root) :
            IF heap[n].isLeaf
            THEN Len(heap[n].children) = 0
            ELSE Len(heap[n].children) = Len(heap[n].keys) + 1

\* C10: after any sequence of calls that returned, the next chain from the
\* leftmost leaf visits exactly the leaves reachable from the root, each
\* once, in increasing key order, and ends at nil; the prev chain from the
\* rightmost leaf visits them in the reverse order.
C10_LeafChainIntegrity ==
    ~panicked =>
        LET w == walkLeaves(heap, root)
            k == walkKeys(heap, root)
        IN  /\ Range(w) = leavesUnder(heap, root)
            /\ Len(w) = Cardinality(Range(w))
            /\ \A i \in 1..(Len(k) - 1) : k[i] < k[i + 1]
            /\ backLeaves(heap, root) = reverse(w)

\* The nodes whose children list holds n, once per slot holding it.
parentSlots(h, rt, n) ==
    {<<p, j>> \in treeNodes(h, rt) \X (1..Len(h)) :
        j <= Len(h[p].children) /\ h[p].children[j] = n}

\* C11: after every Insert or Remove that returned, the root has no parent,
\* and every other node reachable from the root is held by exactly one slot
\* of one reachable node's children list, and that node is its parent.
C11_ParentChildConsistency ==
    (~panicked /\ root # Nil) =>
        /\ heap[root].parent = Nil
        /\ \A n \in treeNodes(heap, root) \ {root} :
              /\ Cardinality(parentSlots(heap, root, n)) = 1
              /\ \A s \in parentSlots(heap, root, n) : heap[n].parent = s[1]

\* The keys stored in the nodes reachable from n through child references.
subtreeKeys(h, n) == UNION {Range(h[m].keys) : m \in subtree(h, n)}

\* C12: after every Insert or Remove that returned, in every reachable
\* internal node the keys are strictly increasing, the keys under child 0 are
\* below keys[0], the keys under child i are in [keys[i-1], keys[i]), and the
\* keys under the last child are at or above the last key.
C12_SeparatorInvariant ==
    ~panicked =>
        \A n \in treeNodes(heap, root) :
            ~heap[n].isLeaf =>
                /\ \A i \in 1..(Len(heap[n].keys) - 1) :
                      heap[n].keys[i] < heap[n].keys[i + 1]
                /\ \A j \in 1..Len(heap[n].children) :
                      \A k \in subtreeKeys(heap, heap[n].children[j]) :
                          /\ j <= Len(heap[n].keys) => k < heap[n].keys[j]
                          /\ (j > 1 /\ j - 1 <= Len(heap[n].keys)) =>
                                 k >= heap[n].keys[j - 1]

\* C13: New produces no tree whose order is below 3.
C13_InvalidOrderRejected == order >= 3

\* C14: no Insert or Remove call aborts with a run-time panic.
C14_NoOperationAborts == ~panicked

\* The pairs (k, k) for k = 1..n, in key order.
identityPairs(n) == [k \in 1..n |-> <<k, k>>]

\* The tree of order 4 right after Insert(1,1), ..., Insert(10,10).
afterTenInserts == order = 4 /\ last.op = "Insert" /\ last.key = 10

\* C15: on a tree of order 4, after the keys 1..10 were inserted in
\* ascending order with value = key, the root is an internal node with at
\* most 3 keys whose children are all leaves, and the ascending walk yields
\* (1,1), (2,2), ..., (10,10).
C15_ScenarioInserts ==
    afterTenInserts =>
        /\ ~heap[root].isLeaf
        /\ Len(heap[root].keys) <= 3
        /\ \A j \in 1..Len(heap[root].children) :
              heap[heap[root].children[j]].isLeaf
        /\ walkPairs(heap, root) = identityPairs(10)

\* C15 witness: the ten ascending inserts into the tree of order 4 have been
\* made, by at least one root split, and the root holds three separators.
C15_Witness ==
    /\ afterTenInserts
    /\ ~panicked
    /\ refPairs(ref) = identityPairs(10)
    /\ Len(heap[root].keys) = 3
    /\ Len(heap[root].children) = 4

\* The pairs (k, k) for the keys k of ks, in key order.
identityPairsOf(ks) == refPairs([k \in ks |-> k])

\* The last call was a Remove that returned found and left a tree that
\* satisfies the structural invariants and whose walk yields the keys ks.
removedLeaving(ks) ==
    /\ last.op = "Remove"
    /\ last.ret
    /\ ~panicked
    /\ C8_KeyCountBounds
    /\ C9_ChildCount
    /\ C10_LeafChainIntegrity
    /\ C11_ParentChildConsistency
    /\ C12_SeparatorInvariant
    /\ walkPairs(heap, root) = identityPairsOf(ks)

\* The tree of order 4 right after a Remove(k) that took the walk from the
\* keys ks and k to the keys ks.
afterRemove(k, ks) ==
    /\ order = 4
    /\ last.key = k
    /\ before = identityPairsOf(ks \cup {k})
    /\ removedLeaving(ks)

\* C16: on the tree of order 4 built by inserting 1..10 in ascending order,
\* Remove(5), then Remove(6), then Remove(7) each return found = TRUE and
\* leave the structural invariants intact, and the walk then yields the
\* pairs of the keys 1, 2, 3, 4, 8, 9, 10.
C16_ScenarioRemoves ==
    [][/\ (afterTenInserts /\ last'.op = "Remove" /\ last'.key = 5) =>
              removedLeaving((1..10) \ {5})'
       /\ (afterRemove(5, (1..10) \ {5}) /\ last'.op = "Remove" /\ last'.key = 6) =>
              removedLeaving((1..10) \ {5, 6})'
       /\ (afterRemove(6, (1..10) \ {5, 6}) /\ last'.op = "Remove" /\ last'.key = 7) =>
              removedLeaving((1..10) \ {5, 6, 7})']_vars

\* C17: every Remove of a key the tree held returns found = TRUE, and once
\* every inserted key has been removed the tree is empty: the root is nil or
\* holds no key and no child, and the ascending walk yields nothing.
C17_EmptyingTheTree ==
    last.op = "Remove" =>
        /\ last.key \in keysOf(before) => last.ret
        /\ DOMAIN ref = {} =>
              /\ ~panicked
              /\ walkPairs(heap, root) = <<>>
              /\ root # Nil =>
                    heap[root].keys = <<>> /\ heap[root].children = <<>>

\* C18: in every reachable internal node the descent for a key equal to the
\* separator keys[j] goes on into child j + 1, and the descent from the root
\* for any key stored in a leaf ends at a leaf that holds it.
C18_TieRouting ==
    ~panicked =>
        /\ \A n \in treeNodes(heap, root) :
              \A j \in 1..Len(heap[n].keys) :
                  ~heap[n].isLeaf =>
                      find(heap[n].keys, heap[n].keys[j]).index = j
        /\ \A k \in leafKeys(heap, root) :
              k \in Range(heap[descend(heap, root, k)].keys)

\* Remove(key) on tree (h, rt) returns with another node as the tree's root
\* while the node that was the root still holds a key.
rootReplacedEarly(h, rt, key) ==
    LET early(r) == ~r.panic /\ r.root # rt /\ Len(r.h[rt].keys) > 0
    IN  rt # Nil /\ early(TreeRemove(h, rt, key))

\* C19: a Remove that returns replaces the tree's root only by the sole child
\* of a root left without keys, and leaves no internal node without keys in
\* the tree: the sole child of an emptied parent has taken its place.
C19_CollapseOnlyAtRoot ==
    [][(last'.op = "Remove" /\ ~panicked') =>
          /\ ~rootReplacedEarly(heap, root, last'.key)
          /\ \A n \in treeNodes(heap', root') :
                ~heap'[n].isLeaf => Len(heap'[n].keys) > 0]_vars

\* Remove(key), having reached leaf n of heap h, takes the key out of n and
\* merges n with a neighbour: the key is found, n is not the root and falls
\* below minKeys, no pair can be stolen, and mayMergeWithNeighbor merges.
mergesLeaf(h, n, key) ==
    LET merged(mg) == mg.merged /\ ~mg.panic
        notStolen(h1, st) ==
            ~st.ok /\ ~st.panic /\ merged(mayMergeWithNeighbor(h1, n, key))
        underfull(h1) ==
            /\ h1[n].parent # Nil
            /\ Len(h1[n].keys) < minKeys(h1[n])
            /\ notStolen(h1, mayStealFromNeighborLeaf(h1, n, key))
        at(f) ==
            f.found /\ underfull([h EXCEPT ![n].keys   = removeAt(@, f.index),
                                           ![n].values = removeAt(@, f.index)])
    IN  at(find(h[n].keys, key))

\* The node a merge of leaf n absorbs: n itself when it has a previous
\* neighbour to be appended onto, otherwise its next neighbour.
absorbedBy(h, n) == IF h[n].prev # Nil THEN n ELSE h[n].next

\* The nodes that some node of heap h lists as a child.
listed(h) == UNION {Range(h[m].children) : m \in 1..Len(h)}

\* After Remove(key) on tree (h, rt) the node absorbed by the merge of leaf n
\* is listed as a child by no node, every other node that was listed as a
\* child still is, and the absorbed node is reachable neither from the root
\* nor along the leaf chain.
mergeDropsOnlyAbsorbed(h, rt, n, key) ==
    LET after(r, absorbed) ==
            /\ absorbed \notin listed(r.h)
            /\ listed(h) \ {absorbed} \subseteq listed(r.h)
            /\ absorbed \notin treeNodes(r.h, r.root)
            /\ absorbed \notin Range(walkLeaves(r.h, r.root))
    IN  after(TreeRemove(h, rt, key), absorbedBy(h, n))

\* C20: when a Remove that returns has merged the underfull leaf it took the
\* key from, the parent has lost the child reference of the absorbed node and
\* of no other node: the absorbed node is reachable neither from the root nor
\* from the leaf chain and the other children of the parent still are.
C20_MergeDropsAbsorbedNode ==
    [][(/\ last'.op = "Remove"
        /\ ~panicked'
        /\ root # Nil
        /\ mergesLeaf(heap, descend(heap, root, last'.key), last'.key)) =>
          mergeDropsOnlyAbsorbed(heap, root, descend(heap, root, last'.key),
                                 last'.key)]_vars

\* ------------------------------------------- claims on one rebalancing step
\* The heap after the pair of key is taken out of leaf n (lines 220-221).
withoutPair(h, n, key) ==
    [h EXCEPT ![n].keys   = removeAt(@, find(h[n].keys, key).index),
              ![n].values = removeAt(@, find(h[n].keys, key).index)]

\* Remove(key) on tree (h, rt) finds the key in the leaf its descent reaches
\* and leaves that leaf, which is not the root, below minKeys.
leavesUnderfull(h, rt, key) ==
    LET low(h1, n) == h1[n].parent # Nil /\ Len(h1[n].keys) < minKeys(h1[n])
        at(n) == find(h[n].keys, key).found /\ low(withoutPair(h, n, key), n)
    IN  rt # Nil /\ at(descend(h, rt, key))

\* Leaf m exists and holds more than minKeys keys.
canGive(h, m) == m # Nil /\ Len(h[m].keys) > minKeys(h[m])

\* The separator between the leaves a and b of heap h is keys[i] of node p:
\* a is under child i and b under child i + 1 of p (1-based slots).
separates(h, p, i, a, b) ==
    /\ ~h[p].isLeaf
    /\ i <= Len(h[p].keys)
    /\ i + 1 <= Len(h[p].children)
    /\ a \in subtree(h, h[p].children[i])
    /\ b \in subtree(h, h[p].children[i + 1])

\* From heap h to heap g the only separator that changed is the one between
\* the leaves a and b, which became sep.
onlySeparatorSet(h, g, a, b, sep) ==
    \E p \in 1..Len(h), i \in 1..Len(h) :
        /\ separates(h, p, i, a, b)
        /\ g[p].keys = [h[p].keys EXCEPT ![i] = sep]
        /\ \A m \in 1..Len(h) : (m # p /\ ~h[m].isLeaf) => g[m].keys = h[m].keys

\* Remove(key) on (h, rt) returns with the last pair of the previous leaf
\* moved to the front of leaf n and the separator between the two set to the
\* stolen key.
stolenFromPrev(h, rt, n, prev, key) ==
    LET moved(r, h1, stolenKey, stolenValue) ==
            /\ ~r.panic
            /\ r.h[n].keys = <<stolenKey>> \o h1[n].keys
            /\ r.h[n].values = <<stolenValue>> \o h1[n].values
            /\ r.h[prev].keys = pop(h[prev].keys)
            /\ r.h[prev].values = pop(h[prev].values)
            /\ onlySeparatorSet(h, r.h, prev, n, stolenKey)
    IN  moved(TreeRemove(h, rt, key), withoutPair(h, n, key),
              h[prev].keys[Len(h[prev].keys)],
              h[prev].values[Len(h[prev].values)])

\* C21: when a Remove leaves a non-root leaf below minKeys and the previous
\* leaf holds more than minKeys keys, the previous leaf's last pair becomes
\* the first pair of the leaf and the separator between the two leaves is
\* overwritten with the stolen key; no other separator changes.
C21_StealFromPrev ==
    [][(/\ last'.op = "Remove"
        /\ leavesUnderfull(heap, root, last'.key)
        /\ canGive(heap, heap[descend(heap, root, last'.key)].prev)) =>
          stolenFromPrev(heap, root, descend(heap, root, last'.key),
                         heap[descend(heap, root, last'.key)].prev,
                         last'.key)]_vars

\* Remove(key) on (h, rt) returns with the first pair of the next leaf moved
\* to the end of leaf n and the separator between the two set to the key
\* that is then first in the next leaf.
stolenFromNext(h, rt, n, next, key) ==
    LET moved(r, h1) ==
            /\ ~r.panic
            /\ r.h[n].keys = Append(h1[n].keys, h[next].keys[1])
            /\ r.h[n].values = Append(h1[n].values, h[next].values[1])
            /\ r.h[next].keys = Tail(h[next].keys)
            /\ r.h[next].values = Tail(h[next].values)
            /\ onlySeparatorSet(h, r.h, n, next, h[next].keys[2])
    IN  moved(TreeRemove(h, rt, key), withoutPair(h, n, key))

\* C22: when a Remove leaves a non-root leaf below minKeys, the previous leaf
\* cannot give and the next leaf holds more than minKeys keys, the next
\* leaf's first pair becomes the last pair of the leaf and the separator
\* between the two leaves becomes the new first key of the next leaf; no
\* other separator changes.
C22_StealFromNext ==
    [][(/\ last'.op = "Remove"
        /\ leavesUnderfull(heap, root, last'.key)
        /\ ~canGive(heap, heap[descend(heap, root, last'.key)].prev)
        /\ canGive(heap, heap[descend(heap, root, last'.key)].next)) =>
          stolenFromNext(heap, root, descend(heap, root, last'.key),
                         heap[descend(heap, root, last'.key)].next,
                         last'.key)]_vars

\* From heap h to heap g no node was added, and no child list, sibling link,
\* parent reference or leaf flag changed.
sameShape(h, g) ==
    /\ Len(g) = Len(h)
    /\ \A m \in 1..Len(h) :
          /\ g[m].children = h[m].children
          /\ g[m].next = h[m].next
          /\ g[m].prev = h[m].prev
          /\ g[m].parent = h[m].parent
          /\ g[m].isLeaf = h[m].isLeaf

\* What Remove(key), finding the key in leaf n of tree (h, rt), does besides
\* taking the pair out: nothing when n is the root or keeps minKeys keys;
\* otherwise it moves the last pair of the previous leaf when that leaf can
\* give, else the first pair of the next leaf when that one can give; either
\* steal leaves the shape of the tree as it was.
rebalancedInOrder(h, rt, n, key) ==
    LET prev == h[n].prev
        next == h[n].next
        done(r, h1) ==
            IF h1[n].parent = Nil \/ Len(h1[n].keys) >= minKeys(h1[n])
            THEN r.h = h1 /\ r.root = rt
            ELSE IF canGive(h, prev)
            THEN /\ sameShape(h, r.h)
                 /\ r.root = rt
                 /\ r.h[n].keys = <<h[prev].keys[Len(h[prev].keys)]>> \o h1[n].keys
                 /\ r.h[prev].keys = pop(h[prev].keys)
                 /\ next # Nil => r.h[next] = h[next]
            ELSE IF canGive(h, next)
            THEN /\ sameShape(h, r.h)
                 /\ r.root = rt
                 /\ r.h[n].keys = Append(h1[n].keys, h[next].keys[1])
                 /\ r.h[next].keys = Tail(h[next].keys)
                 /\ prev # Nil => r.h[prev] = h[prev]
            ELSE TRUE
    IN  done(TreeRemove(h, rt, key), withoutPair(h, n, key))

\* C23: a Remove that finds its key and returns rebalances in this order:
\* nothing else is modified when the leaf is the root or keeps minKeys keys;
\* otherwise the previous leaf gives a pair if it holds more than minKeys
\* keys, else the next leaf does if it holds more than minKeys keys, and only
\* otherwise can a merge change the leaves and child lists.
C23_RebalancingOrder ==
    [][(last'.op = "Remove" /\ last'.ret /\ ~panicked') =>
          rebalancedInOrder(heap, root, descend(heap, root, last'.key),
                            last'.key)]_vars

\* C23 witness: on the tree of order 3 holding [1,2,3], [4,5] and [6,8],
\* Remove(5) has returned after the previous leaf gave its last pair: the
\* leaves are [1,2], [3,4] and [6,8], still three under the same root.
C23_Witness ==
    /\ order = 3
    /\ last.op = "Remove" /\ last.key = 5 /\ last.ret
    /\ ~panicked
    /\ before = identityPairsOf({1, 2, 3, 4, 5, 6, 8})
    /\ Len(heap[root].children) = 3
    /\ heap[heap[root].children[1]].keys = <<1, 2>>
    /\ heap[heap[root].children[2]].keys = <<3, 4>>
    /\ heap[heap[root].children[3]].keys = <<6, 8>>

\* C24: internal nodes carry no prev/next sibling links (a neighbour of an
\* internal node is found through its parent's child list), and the tree's
\* root has no neighbour to merge with: after every call that returned, the
\* prev and next of every reachable internal node and of the root are nil.
C24_InternalNeighbours ==
    ~panicked =>
        /\ \A n \in treeNodes(heap, root) :
              ~heap[n].isLeaf => heap[n].prev = Nil /\ heap[n].next = Nil
        /\ root # Nil => heap[root].prev = Nil /\ heap[root].next = Nil

\* --------------------------------------------------- claims on one split
\* Insert(key, ...) on tree (h, rt) puts a new key into a leaf that already
\* holds maxKeys keys.
overflowsLeaf(h, rt, key) ==
    LET full(n) == ~find(h[n].keys, key).found /\ Len(h[n].keys) >= maxKeys(h[n])
    IN  rt # Nil /\ full(descend(h, rt, key))

\* After Insert(key, value) on tree (h, rt) of order ord, which overflows
\* leaf n: n keeps the first d = ceil(ord / 2) pairs of its ord + 1 pairs,
\* the new leaf holds the others in order, and the key that stands left of the
\* new leaf in the node listing it is the first key of the new leaf.
leafSplitInHalves(h, rt, ord, n, key, value) ==
    LET d == (ord + 1) \div 2
        new == Len(h) + 1
        halves(r, ks, vs) ==
            /\ Len(ks) = ord + 1
            /\ Len(r.h) >= new
            /\ r.h[new].isLeaf
            /\ r.h[n].keys = SubSeq(ks, 1, d)
            /\ r.h[n].values = SubSeq(vs, 1, d)
            /\ r.h[new].keys = SubSeq(ks, d + 1, Len(ks))
            /\ r.h[new].values = SubSeq(vs, d + 1, Len(vs))
            /\ d >= minKeys(r.h[n]) /\ d <= maxKeys(r.h[n])
            /\ Len(ks) - d >= minKeys(r.h[new])
            /\ Len(ks) - d <= maxKeys(r.h[new])
            /\ \E p \in 1..Len(r.h), i \in 1..Len(r.h) :
                  /\ i <= Len(r.h[p].keys)
                  /\ i + 1 <= Len(r.h[p].children)
                  /\ r.h[p].children[i + 1] = new
                  /\ r.h[p].keys[i] = ks[d + 1]
        at(index) ==
            halves(TreeInsert(h, rt, ord, key, value),
                   insertAt(h[n].keys, index, key),
                   insertAt(h[n].values, index, value))
    IN  at(find(h[n].keys, key).index)

listedKeys(h) == UNION {Range(h[m].keys) : m \in {x \in 1..Len(h) : ~h[x].isLeaf}}

\* The internal nodes of heap h that hold fewer keys in heap g: the internal
\* nodes an Insert taking h to g has split.
splitInternals(h, g) ==
    {l \in 1..Len(h) : ~h[l].isLeaf /\ Len(g[l].keys) < Len(h[l].keys)}

\* Sequence s is sequence t with one element taken out.
oneLess(s, t) == \E x \in 1..Len(t) : removeAt(t, x - 1) = s

\* In heap g, reached by an Insert from heap h of a tree of order ord, the
\* internal node l was split as claimed into l and the new node m with the
\* key p promoted: l had ord - 1 keys, the ord keys it overflowed with are
\* l's d = ceil(ord / 2) - 1 keys, p, and m's keys; its children went to l
\* (d + 1 of them) and m; p stands in the node listing m, just left of m, in
\* key order.
internalSplitInHalves(h, g, ord, l, m, p) ==
    LET d == (ord + 1) \div 2 - 1
    IN  /\ Len(h[l].keys) = ord - 1
        /\ Len(g[l].keys) = d
        /\ oneLess(h[l].keys, g[l].keys \o <<p>> \o g[m].keys)
        /\ p \notin Range(g[l].keys) \cup Range(g[m].keys)
        /\ Len(g[l].children) = d + 1
        /\ Len(g[m].children) = Len(g[m].keys) + 1
        /\ oneLess(h[l].children, g[l].children \o g[m].children)
        /\ d >= minKeys(g[l]) /\ d <= maxKeys(g[l])
        /\ Len(g[m].keys) >= minKeys(g[m]) /\ Len(g[m].keys) <= maxKeys(g[m])
        /\ \E q \in 1..Len(g), j \in 1..Len(g) :
              /\ j <= Len(g[q].keys)
              /\ j + 1 <= Len(g[q].children)
              /\ g[q].children[j + 1] = m
              /\ g[q].keys[j] = p
              /\ \A x \in 1..(Len(g[q].keys) - 1) : g[q].keys[x] < g[q].keys[x + 1]

\* Every internal node that Insert(key, value) on tree (h, rt) splits is
\* split as claimed, into itself and a new internal node.
internalsSplitInHalves(h, rt, ord, key, value) ==
    LET halves(r) ==
            \A l \in splitInternals(h, r.h) :
                \E m \in (Len(h) + 1)..Len(r.h), p \in listedKeys(r.h) :
                    ~r.h[m].isLeaf /\ internalSplitInHalves(h, r.h, ord, l, m, p)
    IN  halves(TreeInsert(h, rt, ord, key, value))

\* C26: an Insert that overflows an internal node promotes its key at index
\* minKeys, which stays in neither half; the node keeps the keys before it
\* with minKeys + 1 children, the new node gets the keys after it with the
\* other children; each half has len(keys) + 1 children and between minKeys
\* and maxKeys keys; the promoted key stands in the parent in key order with
\* the new node immediately right of it.
C26_InternalSplit ==
    [][last'.op = "Insert" =>
          internalsSplitInHalves(heap, root, order, last'.key, last'.val)]_vars

\* C26 witness: Insert(8,8) has split the internal root [3,5,7] of the tree
\* of order 3 into [3] and [7] under a new root [5].
C26_Witness ==
    /\ order = 3
    /\ last.op = "Insert" /\ last.key = 8
    /\ before = identityPairs(7)
    /\ heap[root].keys = <<5>>
    /\ Len(heap[root].children) = 2
    /\ heap[heap[root].children[1]].keys = <<3>>
    /\ heap[heap[root].children[2]].keys = <<7>>
    /\ Len(heap[heap[root].children[1]].children) = 2
    /\ Len(heap[heap[root].children[2]].children) = 2

\* After Insert(key, value) on tree (h, rt), which overflows leaf n: the new
\* leaf stands in the chain between n and n's former next leaf, and no other
\* link between leaves has changed.
leafSplitLinked(h, rt, ord, n, key, value) ==
    LET new == Len(h) + 1
        linked(r, nx) ==
            /\ Len(r.h) >= new
            /\ r.h[new].isLeaf
            /\ r.h[n].next = new
            /\ r.h[new].prev = n
            /\ r.h[new].next = nx
            /\ r.h[n].prev = h[n].prev
            /\ nx # Nil => r.h[nx].prev = new /\ r.h[nx].next = h[nx].next
            /\ \A x \in (1..Len(h)) \ {n, nx} :
                  h[x].isLeaf =>
                      r.h[x].next = h[x].next /\ r.h[x].prev = h[x].prev
    IN  linked(TreeInsert(h, rt, ord, key, value), h[n].next)

\* C27: after an Insert has split leaf n into n and the new leaf r, n.next =
\* r, r.prev = n, r.next is n's former next, which (if any) has prev = r,
\* and no other prev or next of a leaf has changed.
C27_LeafSplitLinks ==
    [][(last'.op = "Insert" /\ overflowsLeaf(heap, root, last'.key)) =>
          leafSplitLinked(heap, root, order, descend(heap, root, last'.key),
                          last'.key, last'.val)]_vars

\* C27 witness: on the tree of order 3, Insert(0,0) has split the first leaf
\* [1,2,3], which had a next leaf, into [0,1] and [2,3]; the chain runs
\* [0,1], [2,3], [4,5], ... forwards and backwards.
C27_Witness ==
    /\ order = 3
    /\ last.op = "Insert" /\ last.key = 0
    /\ Len(walkLeaves(heap, root)) = 5
    /\ heap[walkLeaves(heap, root)[1]].keys = <<0, 1>>
    /\ heap[walkLeaves(heap, root)[2]].keys = <<2, 3>>
    /\ heap[walkLeaves(heap, root)[3]].keys = <<4, 5>>
    /\ heap[walkLeaves(heap, root)[3]].prev = walkLeaves(heap, root)[2]
    /\ heap[walkLeaves(heap, root)[2]].prev = walkLeaves(heap, root)[1]

\* The number of levels from node n down its first children to a leaf.
RECURSIVE height(_, _)
height(h, n) ==
    IF h[n].isLeaf \/ h[n].children = <<>>
    THEN 1
    ELSE 1 + height(h, h[n].children[1])

\* Insert(key, value) on the non-empty tree (h, rt): the root changes only to
\* a new node of one key over the old root and the new node split off it,
\* both with the new root as parent; the height grows by at most one; and an
\* Insert that allocates no node changes only the leaf its descent reaches.
rootGrownBySplit(h, rt, ord, key, value) ==
    LET top(g, R) ==
            /\ R > Len(h)
            /\ g[R].parent = Nil
            /\ Len(g[R].keys) = 1
            /\ Len(g[R].children) = 2
            /\ g[R].children[1] = rt
            /\ g[R].children[2] > Len(h)
            /\ g[R].children[2] # R
            /\ g[rt].parent = R
            /\ g[g[R].children[2]].parent = R
            /\ g[g[R].children[2]].isLeaf = h[rt].isLeaf
            /\ Len(g[rt].keys) < Len(h[rt].keys) + 1
        grown(r) ==
            /\ r.root # rt => top(r.h, r.root)
            /\ height(r.h, r.root) <= height(h, rt) + 1
            /\ Len(r.h) = Len(h) =>
                  /\ r.root = rt
                  /\ \A m \in (1..Len(h)) \ {descend(h, rt, key)} : r.h[m] = h[m]
    IN  grown(TreeInsert(h, rt, ord, key, value))

\* C28: an Insert replaces the tree's root only when the old root splits; the
\* new root holds the one promoted key and two children, the old root and
\* its new right sibling, both with the new root as parent; one Insert adds
\* at most one level; an Insert that splits no node changes only one leaf.
C28_RootGrowth ==
    [][(last'.op = "Insert" /\ root # Nil) =>
          rootGrownBySplit(heap, root, order, last'.key, last'.val)]_vars

\* C28 witness: Insert(4,4) has split the root leaf [1,2,3] of the tree of
\* order 3; the new root [3] is the parent of both halves.
C28_Witness ==
    /\ order = 3
    /\ last.op = "Insert" /\ last.key = 4 /\ last.ret
    /\ before = identityPairs(3)
    /\ heap[root].keys = <<3>>
    /\ heap[root].parent = Nil
    /\ Len(heap[root].children) = 2
    /\ \A j \in 1..2 : heap[heap[root].children[j]].parent = root
    /\ heap[heap[root].children[1]].isLeaf

\* The depths, counted from node n, of the leaves under n.
RECURSIVE leafDepths(_, _)
leafDepths(h, n) ==
    IF h[n].isLeaf
    THEN {0}
    ELSE {d + 1 : d \in UNION {leafDepths(h, h[n].children[j]) :
                                   j \in 1..Len(h[n].children)}}

\* C29: after any sequence of calls that returned, every leaf reachable from
\* the root is at the same depth, and a reachable node is a leaf exactly
\* when it has no children.
C29_UniformDepth ==
    (~panicked /\ root # Nil) =>
        /\ Cardinality(leafDepths(heap, root)) = 1
        /\ \A n \in treeNodes(heap, root) :
              heap[n].isLeaf <=> heap[n].children = <<>>

\* C29 witness: on the tree of order 3 holding [1,2] and [3,4] under root
\* [3], Remove(1) has merged the two leaves and the tree has lost a level:
\* the root is the leaf [2,3,4].
C29_Witness ==
    /\ order = 3
    /\ last.op = "Remove" /\ last.key = 1 /\ last.ret
    /\ ~panicked
    /\ before = identityPairs(4)
    /\ heap[root].isLeaf
    /\ heap[root].keys = <<2, 3, 4>>
    /\ leafDepths(heap, root) = {0}

\* The descent of node.insert and node.remove from the root of tree (h, rt)
\* ends at a leaf in which items.find finds key.
foundByDescent(h, rt, key) ==
    /\ rt # Nil
    /\ find(h[descend(h, rt, key)].keys, key).found

\* C30: after any sequence of calls that returned, a key is found by the
\* descent from the root exactly when the ascending walk of the leaf chain
\* yields it.
C30_LookupAgreesWithChain ==
    ~panicked =>
        \A k \in 0..(MaxKey + ScenarioKeys) :
            foundByDescent(heap, root, k) <=> k \in Range(walkKeys(heap, root))

\* s is strictly increasing under less.
strictlyIncreasing(s) ==
    \A i \in 1..Len(s) : \A j \in 1..Len(s) : i < j => less(s[i], s[j])

====
